---- MODULE Spec2Model ----
(***************************************************************************)
(* A model of sqlglot/executor.py: the plan scheduler (execute_plan), the  *)
(* four physical operators (scan, join, aggregate, sort), the columnar     *)
(* DataTable and the evaluation Context.                                   *)
(*                                                                         *)
(* Python objects that are shared by reference live in `heap`:             *)
(*   heap.lists  the list objects holding column values (id = index)       *)
(*   heap.dts    the DataTable objects (id = index); a DataTable's         *)
(*               ColumnarReader shares the table dict, so its `row` is a   *)
(*               field of the DataTable record.                            *)
(* Python indices are kept 0-based; a Python list [a, b] is the sequence   *)
(* <<a, b>> and list[i] is s[i + 1].  An optional value (None or a value)  *)
(* is <<>> or <<v>>.                                                       *)
(***************************************************************************)
EXTENDS Integers, Sequences, FiniteSets, TLC

VARIABLES
    pc,        \* position of the running program
    plan,      \* the plan: node id -> step (dependencies, dependents, parameters)
    csv,       \* the table sources read by scan_csv: name -> [columns, rows]
    queue,     \* execute_plan: the deque of ready nodes
    running,   \* execute_plan: the set of nodes already popped
    contexts,  \* execute_plan: finished node -> data_tables of the Context it returned
    node,      \* execute_plan: the node popped last
    context,   \* the Context handed to the operator / the Context under test
    heap,      \* the list and DataTable objects
    result,    \* what the program returned or raised
    hist       \* history: what was enqueued and run, the heap an operator started from

vars == <<pc, plan, csv, queue, running, contexts, node, context, heap, result, hist>>

-----------------------------------------------------------------------------
(* Sequences and Python dicts (insertion-ordered: a sequence of <<key, value>>). *)

Range(s) == {s[i] : i \in DOMAIN s}

SeqsUpTo(S, n) == UNION {[1..k -> S] : k \in 0..n}

RECURSIVE Concat(_)
Concat(ss) == IF ss = <<>> THEN <<>> ELSE Head(ss) \o Concat(Tail(ss))

Keys(d) == [i \in DOMAIN d |-> d[i][1]]

HasKey(d, k) == \E i \in DOMAIN d : d[i][1] = k

Get(d, k) == d[CHOOSE i \in DOMAIN d : d[i][1] = k][2]

\* d[k] = v: an existing key keeps its position, a new key goes last.
Put(d, k, v) ==
    IF HasKey(d, k)
    THEN [i \in DOMAIN d |-> IF d[i][1] = k THEN <<k, v>> ELSE d[i]]
    ELSE Append(d, <<k, v>>)

\* {**a, **b}, and a dict display or comprehension over the items `items`.
RECURSIVE Merge(_, _)
Merge(a, items) ==
    IF items = <<>> THEN a
    ELSE Merge(Put(a, Head(items)[1], Head(items)[2]), Tail(items))

Dict(items) == Merge(<<>>, items)

EmptyHeap == [lists |-> <<>>, dts |-> <<>>]

-----------------------------------------------------------------------------
(* class DataTable *)

\* DataTable(columns): one fresh empty list per distinct column name.
DataTableOfColumns(h, columns) ==
    LET names == Keys(Dict([i \in DOMAIN columns |-> <<columns[i], 0>>]))
        base  == Len(h.lists)
    IN  [lists |-> h.lists \o [i \in DOMAIN names |-> <<>>],
         dts   |-> Append(h.dts, [table  |-> [i \in DOMAIN names |-> <<names[i], base + i>>],
                                  length |-> 0,
                                  row    |-> <<>>])]

\* DataTable(dict): the mapping is kept as it is, with the lists it holds.
DataTableOfDict(h, table) ==
    [h EXCEPT !.dts = Append(@, [table |-> table, length |-> 0, row |-> <<>>])]

\* The id of the DataTable the last constructor call made.
Last(h) == Len(h.dts)

width(h, t) == Len(h.dts[t].table)

\* self.columns[i], i counted from 0.
columns(h, t, i) == h.dts[t].table[i + 1][1]

Column(h, t, name) == h.lists[Get(h.dts[t].table, name)]

RECURSIVE AppendEach(_, _, _, _)
AppendEach(lists, table, row, i) ==
    IF i > Len(table) THEN lists
    ELSE AppendEach([lists EXCEPT ![table[i][2]] = Append(@, row[i])], table, row, i + 1)

\* DataTable.add(row); row holds at least `width` values.
add(h, t, row) ==
    [lists |-> AppendEach(h.lists, h.dts[t].table, row, 1),
     dts   |-> [h.dts EXCEPT ![t].length = @ + 1]]

RECURSIVE PopEach(_, _, _)
PopEach(lists, table, i) ==
    IF i > Len(table) THEN lists
    ELSE PopEach([lists EXCEPT ![table[i][2]] = SubSeq(@, 1, Len(@) - 1)], table, i + 1)

\* list.pop() raises IndexError on an empty list: pop needs every column non-empty.
CanPop(h, t) == \A i \in DOMAIN h.dts[t].table : h.lists[h.dts[t].table[i][2]] # <<>>

pop(h, t) ==
    [lists |-> PopEach(h.lists, h.dts[t].table, 1),
     dts   |-> [h.dts EXCEPT ![t].length = @ - 1]]

\* ColumnarReader.tuple() of the table's reader, at its current row.
ReaderTuple(h, t) ==
    [i \in DOMAIN h.dts[t].table |-> h.lists[h.dts[t].table[i][2]][h.dts[t].row[1] + 1]]

\* The rows of a table as its column lists hold them (for observation).
Rows(h, t) ==
    LET tb == h.dts[t].table
        n  == IF tb = <<>> THEN 0 ELSE Len(h.lists[tb[1][2]])
    IN  [r \in 1..n |-> [i \in DOMAIN tb |-> h.lists[tb[i][2]][r]]]

-----------------------------------------------------------------------------
(* Expressions and the Python generator (generate, class Python).           *)
(* A compiled unit is the expression itself; Eval runs the Python text     *)
(* that the generator emits for it.                                        *)

ColumnExp(table, name) == [op |-> "Column", table |-> table, this |-> name]
Literal(v)             == [op |-> "Literal", this |-> v]
EQ(l, r)               == [op |-> "EQ", this |-> l, expression |-> r]
Ordered(e, desc)       == [op |-> "Ordered", this |-> e, desc |-> desc]
Cast(e, to)            == [op |-> "Cast", this |-> e, to |-> to]
Interval(e, unit)      == [op |-> "Interval", this |-> e, unit |-> unit]
Alias(e, alias)        == [op |-> "Alias", this |-> e, alias |-> alias]
Sum(e)                 == [op |-> "Sum", this |-> e]

\* generate(expression): TRUE when the generator returns code, FALSE when it
\* raises NotImplementedError (_cast_py, _interval_py).
RECURSIVE generate(_)
generate(e) ==
    CASE e.op = "Column"   -> TRUE
      [] e.op = "Literal"  -> TRUE
      [] e.op = "EQ"       -> generate(e.this) /\ generate(e.expression)
      [] e.op = "Ordered"  -> generate(e.this)
      [] e.op = "Alias"    -> generate(e.this)
      [] e.op = "Sum"      -> generate(e.this)
      [] e.op = "Cast"     -> generate(e.this) /\ e.to = "DATE"
      [] e.op = "Interval" -> generate(e.this) /\ e.unit = "DAY"

generateAll(es) == \A i \in DOMAIN es : generate(es[i])

RECURSIVE alias_or_name(_)
alias_or_name(e) ==
    CASE e.op = "Alias"  -> e.alias
      [] e.op = "Column" -> e.this
      [] OTHER           -> ""

\* An expression whose value is a reverse_key object (desc(...)).
RECURSIVE IsReverseKey(_)
IsReverseKey(e) ==
    CASE e.op = "Ordered" -> e.desc
      [] e.op = "Alias"   -> IsReverseKey(e.this)
      [] OTHER            -> FALSE

RECURSIVE SumSeq(_)
SumSeq(s) == IF s = <<>> THEN 0 ELSE Head(s) + SumSeq(Tail(s))

-----------------------------------------------------------------------------
(* class Context, RangeReader, ColumnarReader, RowReader.                   *)
(* A machine state m = [h |-> the heap, c |-> the Context object].         *)

DT(id)        == [isdt |-> TRUE, dt |-> id, columns |-> <<>>]
ColumnList(c) == [isdt |-> FALSE, dt |-> 0, columns |-> c]

RowReaderOf(v) ==
    IF v.isdt THEN [kind |-> "ColumnarReader", dt |-> v.dt, columns |-> <<>>, row |-> <<>>]
    ELSE [kind |-> "RowReader", dt |-> 0, columns |-> v.columns, row |-> <<>>]

\* Context(tables): tables is a dict name -> DT(id) | ColumnList(columns).
Context(tables) ==
    LET dts == SelectSeq(tables, LAMBDA kv : kv[2].isdt)
    IN  [data_tables   |-> [i \in DOMAIN dts |-> <<dts[i][1], dts[i][2].dt>>],
         range_readers |-> [i \in DOMAIN dts |-> <<dts[i][1], <<0, 0>>>>],
         row_readers   |-> [i \in DOMAIN tables |-> <<tables[i][1], RowReaderOf(tables[i][2])>>],
         scope         |-> "row_readers"]

\* Context({name: data_table ...}) over DataTables only.
ContextOfTables(data_tables) ==
    Context([i \in DOMAIN data_tables |-> <<data_tables[i][1], DT(data_tables[i][2])>>])

\* Context.set_row(table, row)
set_row(m, table, row) ==
    LET r == Get(m.c.row_readers, table)
    IN  IF r.kind = "ColumnarReader"
        THEN [h |-> [m.h EXCEPT !.dts[r.dt].row = <<row>>],
              c |-> [m.c EXCEPT !.scope = "row_readers"]]
        ELSE [h |-> m.h,
              c |-> [m.c EXCEPT !.row_readers = Put(@, table, [r EXCEPT !.row = <<row>>]),
                                !.scope = "row_readers"]]

\* Context.set_range(table, start, end)
set_range(m, table, start, end) ==
    [h |-> m.h,
     c |-> [m.c EXCEPT !.range_readers = Put(@, table, <<start, end>>),
                       !.scope = "range_readers"]]

\* range(start, end) as the sequence of its indices.
PyRange(r) == [i \in 1..(IF r[2] > r[1] THEN r[2] - r[1] ELSE 0) |-> r[1] + i - 1]

\* The position of `name` in a RowReader's columns ({column: i for i, column ...}).
RowReaderIndex(cols, name) == CHOOSE i \in DOMAIN cols :
    cols[i] = name /\ \A j \in DOMAIN cols : cols[j] = name => j <= i

\* scope[table][name]: Context.__getitem__, then the reader's __getitem__.
Lookup(m, table, name) ==
    IF m.c.scope = "row_readers"
    THEN LET r == Get(m.c.row_readers, table)
         IN  IF r.kind = "ColumnarReader"
             THEN Column(m.h, r.dt, name)[m.h.dts[r.dt].row[1] + 1]
             ELSE r.row[1][RowReaderIndex(r.columns, name)]
    ELSE LET idx == PyRange(Get(m.c.range_readers, table))
             col == Column(m.h, Get(m.c.data_tables, table), name)
         IN  [i \in DOMAIN idx |-> col[idx[i] + 1]]

\* Context.eval(code)
RECURSIVE Eval(_, _)
Eval(m, e) ==
    CASE e.op = "Column"   -> Lookup(m, e.table, e.this)
      [] e.op = "Literal"  -> e.this
      [] e.op = "EQ"       -> Eval(m, e.this) = Eval(m, e.expression)
      [] e.op = "Ordered"  -> IF e.desc THEN [obj |-> Eval(m, e.this)] ELSE Eval(m, e.this)
      [] e.op = "Alias"    -> Eval(m, e.this)
      [] e.op = "Sum"      -> SumSeq(Eval(m, e.this))
      [] e.op = "Cast"     -> [date |-> Eval(m, e.this)]
      [] e.op = "Interval" -> [days |-> Eval(m, e.this)]

\* tuple(c.eval(code) for code in codes)
EvalTuple(m, codes) == [j \in DOMAIN codes |-> Eval(m, codes[j])]

\* ctx[table].tuple(): the current row of the table's row reader.
RowTuple(m, table) ==
    LET r == Get(m.c.row_readers, table)
    IN  IF r.kind = "ColumnarReader" THEN ReaderTuple(m.h, r.dt) ELSE r.row[1]

-----------------------------------------------------------------------------
(* Sorting: reverse_key, tuple comparison, list.sort(key=...), Context.sort *)

\* a < b for two values of the key expression `code`: reverse_key.__lt__
\* when the expression yields reverse_key objects.
ValueLt(code, a, b) == IF IsReverseKey(code) THEN b.obj < a.obj ELSE a < b

\* Python's tuple a < b: the first position whose elements are not ==
\* decides (reverse_key.__eq__ compares the wrapped objects).
TupleLt(codes, a, b) ==
    LET diff == {j \in DOMAIN a : j \in DOMAIN b /\ a[j] # b[j]}
    IN  IF diff = {} THEN Len(a) < Len(b)
        ELSE LET j == CHOOSE x \in diff : \A y \in diff : x <= y
             IN  ValueLt(codes[j], a[j], b[j])

\* Insert index i into the sorted index list acc, behind every entry that
\* is not greater (stable).
InsertSorted(codes, ks, acc, i) ==
    LET before == {p \in DOMAIN acc : TupleLt(codes, ks[i + 1], ks[acc[p] + 1])}
        at     == IF before = {} THEN Len(acc) + 1
                  ELSE CHOOSE p \in before : \A q \in before : p <= q
    IN  SubSeq(acc, 1, at - 1) \o <<i>> \o SubSeq(acc, at, Len(acc))

RECURSIVE SortFrom(_, _, _, _)
SortFrom(codes, ks, acc, i) ==
    IF i >= Len(ks) THEN acc
    ELSE SortFrom(codes, ks, InsertSorted(codes, ks, acc, i), i + 1)

\* index = list(range(n)); index.sort(key=...), ks[i + 1] the key of index i.
SortedIndex(codes, ks) == SortFrom(codes, ks, <<>>, 0)

\* The keys _sort(i) computes, i = 0 .. length - 1, each after set_row(table, i).
SortKeys(m, table, codes) ==
    [r \in 1..m.h.dts[Get(m.c.data_tables, table)].length |->
        EvalTuple(set_row(m, table, r - 1), codes)]

\* Context.sort(table, key), key = lambda c: tuple(c.eval(code) for code in codes).
\* Every column of the table's dict is rebound to a new, reordered list.
ContextSort(m, table, codes) ==
    LET t     == Get(m.c.data_tables, table)
        n     == m.h.dts[t].length
        index == SortedIndex(codes, SortKeys(m, table, codes))
        m1    == IF n <= 0 THEN m ELSE set_row(m, table, n - 1)
        tb    == m.h.dts[t].table
        base  == Len(m.h.lists)
        fresh == [i \in DOMAIN tb |-> [p \in DOMAIN index |-> m.h.lists[tb[i][2]][index[p] + 1]]]
    IN  [h |-> [lists |-> m1.h.lists \o fresh,
                dts   |-> [m1.h.dts EXCEPT ![t].table = [i \in DOMAIN tb |-> <<tb[i][1], base + i>>]]],
         c |-> m1.c]

-----------------------------------------------------------------------------
(* The operators.  Each returns [h, raised, data_tables]: the heap it left, *)
(* the exception it raised ("" when it returned) and the data_tables of    *)
(* the Context it returned.                                                *)

Return(h, data_tables) == [h |-> h, raised |-> "", data_tables |-> data_tables]

Raise(h, exception) == [h |-> h, raised |-> exception, data_tables |-> <<>>]

\* `step.limit and ...`: None and 0 are both falsy.
Truthy(limit) == limit # <<>> /\ limit[1] # 0

\* for ctx in context.iter_table(table):
\*     sink.add(tuple(ctx.eval(code) for code in codes))
\*     if limit and sink.length >= limit: break
\* from row i on; n is the table's length when the iteration began.
RECURSIVE AddEvaluated(_, _, _, _, _, _, _)
AddEvaluated(m, sink, table, codes, limit, i, n) ==
    IF i >= n THEN m
    ELSE LET m1 == set_row(m, table, i)
             h1 == add(m1.h, sink, EvalTuple(m1, codes))
         IN  IF Truthy(limit) /\ h1.dts[sink].length >= limit[1] THEN [h |-> h1, c |-> m1.c]
             ELSE AddEvaluated([h |-> h1, c |-> m1.c], sink, table, codes, limit, i + 1, n)

\* The body of scan's loop over table_iter, the reader of `table` set to the row;
\* st = [m, sink, stop], sink None until the first DataTable is made.
ScanRow(step, table, st) ==
    IF step.filter # <<>> /\ ~Eval(st.m, step.filter[1]) THEN st
    ELSE LET h1   == IF st.sink = <<>> /\ step.projections = <<>>
                     THEN DataTableOfColumns(st.m.h,
                              Keys(Dict([i \in DOMAIN Get(st.m.c.row_readers, table).columns |->
                                  <<Get(st.m.c.row_readers, table).columns[i], i>>])))
                     ELSE st.m.h
             sink == IF st.sink = <<>> /\ step.projections = <<>> THEN Last(h1) ELSE st.sink[1]
             row  == IF step.projections # <<>> THEN EvalTuple(st.m, step.projections)
                     ELSE RowTuple(st.m, table)
             h2   == add(h1, sink, row)
         IN  [m    |-> [h |-> h2, c |-> st.m.c],
              sink |-> <<sink>>,
              stop |-> Truthy(step.limit) /\ h2.dts[sink].length >= step.limit[1]]

\* scan_csv(table) driving scan's loop: every row of the source is set with
\* set_row(table, tuple) on a Context over the column names.
RECURSIVE ScanCsvLoop(_, _, _, _, _)
ScanCsvLoop(step, table, rows, st, i) ==
    IF i > Len(rows) \/ st.stop THEN st
    ELSE ScanCsvLoop(step, table, rows,
                     ScanRow(step, table, [st EXCEPT !.m = set_row(st.m, table, rows[i])]), i + 1)

\* context.iter_table(table) driving scan's loop.
RECURSIVE ScanTableLoop(_, _, _, _, _)
ScanTableLoop(step, table, st, i, n) ==
    IF i >= n \/ st.stop THEN st
    ELSE ScanTableLoop(step, table,
                       ScanRow(step, table, [st EXCEPT !.m = set_row(st.m, table, i)]), i + 1, n)

scan(h, files, step, ctx) ==
    LET table == step.source
    IN  IF ~((step.filter = <<>> \/ generate(step.filter[1])) /\ generateAll(step.projections))
        THEN Raise(h, "NotImplementedError")
        ELSE IF HasKey(ctx.data_tables, table) /\ step.projections = <<>>
        THEN Return(h, <<<<step.name, Get(ctx.data_tables, table)>>>>)
        ELSE IF ~HasKey(ctx.data_tables, table) /\ ~HasKey(files, table)
        THEN Raise(h, "FileNotFoundError")
        ELSE IF ~HasKey(ctx.data_tables, table) /\ Get(files, table).rows = <<>>
        THEN Raise(h, "RuntimeError")
        ELSE
        LET h1  == IF step.projections # <<>>
                   THEN DataTableOfColumns(h, [i \in DOMAIN step.projections |->
                                                  alias_or_name(step.projections[i])])
                   ELSE h
            st0 == [m    |-> [h |-> h1,
                              c |-> IF HasKey(ctx.data_tables, table) THEN ctx
                                    ELSE Context(<<<<table, ColumnList(Get(files, table).columns)>>>>)],
                    sink |-> IF step.projections # <<>> THEN <<Last(h1)>> ELSE <<>>,
                    stop |-> FALSE]
            st  == IF HasKey(ctx.data_tables, table)
                   THEN ScanTableLoop(step, table, st0, 0, h.dts[Get(ctx.data_tables, table)].length)
                   ELSE ScanCsvLoop(step, table, Get(files, table).rows, st0, 1)
        IN  IF st.sink = <<>> THEN Raise(st.m.h, "TypeError")
            ELSE Return(st.m.h, <<<<step.name, st.sink[1]>>>>)

\* for ctx in context.iter_table(b): sink.add(ctx[a].tuple() + ctx[b].tuple())
RECURSIVE NestedInner(_, _, _, _, _, _)
NestedInner(m, sink, a, b, j, n) ==
    IF j >= n THEN m
    ELSE LET m1 == set_row(m, b, j)
         IN  NestedInner([h |-> add(m1.h, sink, RowTuple(m1, a) \o RowTuple(m1, b)), c |-> m1.c],
                         sink, a, b, j + 1, n)

\* for _ in context.iter_table(a): <the loop over b>
RECURSIVE NestedOuter(_, _, _, _, _, _)
NestedOuter(m, sink, a, b, i, n) ==
    IF i >= n THEN m
    ELSE LET m1 == set_row(m, a, i)
         IN  NestedOuter(NestedInner(m1, sink, a, b, 0, m1.h.dts[Get(m1.c.data_tables, b)].length),
                         sink, a, b, i + 1, n)

\* nested_loop_join(join, a, b, context)
nested_loop_join(m, a, b) ==
    LET ta == Get(m.c.data_tables, a)
        tb == Get(m.c.data_tables, b)
        h1 == DataTableOfColumns(m.h, Keys(m.h.dts[ta].table) \o Keys(m.h.dts[tb].table))
    IN  [m    |-> NestedOuter([h |-> h1, c |-> m.c], Last(h1), a, b, 0, h1.dts[ta].length),
         sink |-> Last(h1)]

\* The columns of the conditions, in find_all order.
ConditionColumns(on) == Concat([i \in DOMAIN on |-> <<on[i].this, on[i].expression>>])

\* sort_merge_join: b_key, the columns of table b.
BKey(on, b) == SelectSeq(ConditionColumns(on), LAMBDA column : column.table = b)

\* sort_merge_join: a_key, every other column, re-addressed to table a.
AKey(on, a, b) ==
    LET cs == SelectSeq(ConditionColumns(on), LAMBDA column : column.table # b)
    IN  [i \in DOMAIN cs |-> ColumnExp(a, cs[i].this)]

\* get_key(table, key, i)
get_key(m, table, key, i) ==
    LET m1 == set_row(m, table, i) IN [m |-> m1, key |-> EvalTuple(m1, key)]

\* while i < n and key == get_key(table, codes, i): group.append(context[table].tuple())
RECURSIVE JoinGroup(_, _, _, _, _, _)
JoinGroup(m, table, codes, key, i, n) ==
    IF i >= n THEN [m |-> m, i |-> i, rows |-> <<>>]
    ELSE LET g == get_key(m, table, codes, i)
         IN  IF key # g.key THEN [m |-> g.m, i |-> i, rows |-> <<>>]
             ELSE LET rest == JoinGroup(g.m, table, codes, key, i + 1, n)
                  IN  [rest EXCEPT !.rows = <<RowTuple(g.m, table)>> \o @]

\* for a_row in a_group: for b_row in b_group: sink.add(a_row + b_row)
RECURSIVE AddProduct(_, _, _, _, _)
AddProduct(h, sink, a_group, b_group, k) ==
    IF k >= Len(a_group) * Len(b_group) THEN h
    ELSE AddProduct(add(h, sink, a_group[(k \div Len(b_group)) + 1] \o b_group[(k % Len(b_group)) + 1]),
                    sink, a_group, b_group, k + 1)

\* The merge loop of sort_merge_join.
RECURSIVE MergeLoop(_, _, _, _, _, _, _, _, _, _)
MergeLoop(m, a, b, a_key, b_key, sink, a_i, b_i, a_n, b_n) ==
    IF ~(a_i < a_n /\ b_i < b_n) THEN m
    ELSE LET ga  == get_key(m, a, a_key, a_i)
             gb  == get_key(ga.m, b, b_key, b_i)
             key == IF TupleLt(a_key, gb.key, ga.key) THEN gb.key ELSE ga.key
             a_g == JoinGroup(gb.m, a, a_key, key, a_i, a_n)
             b_g == JoinGroup(a_g.m, b, b_key, key, b_i, b_n)
         IN  MergeLoop([h |-> AddProduct(b_g.m.h, sink, a_g.rows, b_g.rows, 0), c |-> b_g.m.c],
                       a, b, a_key, b_key, sink, a_g.i, b_g.i, a_n, b_n)

\* sort_merge_join from `sink = DataTable(...)` on: m is the state after the
\* two sorts, h the heap with the new sink.
MergeInto(h, m, a, b, a_key, b_key) ==
    [m    |-> MergeLoop([h |-> h, c |-> m.c], a, b, a_key, b_key, Last(h), 0, 0,
                        h.dts[Get(m.c.data_tables, a)].length,
                        h.dts[Get(m.c.data_tables, b)].length),
     sink |-> Last(h)]

MergeSorted(m, a, b, a_key, b_key) ==
    MergeInto(DataTableOfColumns(m.h, Keys(m.h.dts[Get(m.c.data_tables, a)].table)
                                          \o Keys(m.h.dts[Get(m.c.data_tables, b)].table)),
              m, a, b, a_key, b_key)

\* sort_merge_join(join, a, b, context)
sort_merge_join(m, join, a, b) ==
    MergeSorted(ContextSort(ContextSort(m, a, AKey(join.on, a, b)), b, BKey(join.on, b)),
                a, b, AKey(join.on, a, b), BKey(join.on, b))

\* One join of step.joins, in the Context c over join_context and the joined table.
JoinOne(h, c, jn, a, b) ==
    IF jn.kind = "CROSS" THEN nested_loop_join([h |-> h, c |-> c], a, b)
    ELSE sort_merge_join([h |-> h, c |-> c], jn, a, b)

\* join_context = Context({name: sink for name in join_context.data_tables})
Rebound(data_tables, sink) == [k \in DOMAIN data_tables |-> <<data_tables[k][1], sink>>]

\* The loop of join over step.joins; jc is join_context.data_tables.
RECURSIVE JoinLoop(_, _, _, _, _)
RECURSIVE JoinNext(_, _, _, _, _, _)

JoinLoop(h, step, ctx, jc, i) ==
    IF i > Len(step.joins) THEN [h |-> h, raised |-> "", jc |-> jc]
    ELSE IF ~HasKey(ctx.data_tables, step.joins[i][1])
    THEN [h |-> h, raised |-> "KeyError", jc |-> jc]
    ELSE JoinNext(JoinOne(h, ContextOfTables(Put(jc, step.joins[i][1],
                                                 Get(ctx.data_tables, step.joins[i][1]))),
                          step.joins[i][2], step.name, step.joins[i][1]),
                  step, ctx, jc, step.joins[i][1], i)

JoinNext(r, step, ctx, jc, name, i) ==
    JoinLoop(r.m.h, step, ctx,
             Rebound(ContextOfTables(Put(jc, name, Get(ctx.data_tables, name))).data_tables, r.sink),
             i + 1)

\* join from `if projections:` on: h the heap with the new sink, jc the
\* data_tables of join_context.
JoinProject(h, step, jc) ==
    Return(AddEvaluated([h |-> h, c |-> ContextOfTables(jc)], Last(h), step.name,
                        step.projections, <<>>, 0, h.dts[Get(jc, step.name)].length).h,
           <<<<step.name, Last(h)>>>>)

\* join after the loop over step.joins, which left j = [h, raised, jc].
JoinFinish(j, step) ==
    IF j.raised # "" THEN Raise(j.h, j.raised)
    ELSE IF ~generateAll(step.projections) THEN Raise(j.h, "NotImplementedError")
    ELSE IF step.projections = <<>> THEN Return(j.h, j.jc)
    ELSE JoinProject(DataTableOfColumns(j.h, [i \in DOMAIN step.projections |->
                                                 alias_or_name(step.projections[i])]),
                     step, j.jc)

join(h, step, ctx) ==
    IF ~HasKey(ctx.data_tables, step.name) THEN Raise(h, "KeyError")
    ELSE JoinFinish(JoinLoop(h, step, ctx, <<<<step.name, Get(ctx.data_tables, step.name)>>>>, 1),
                    step)

\* aggregate(step, context): everything up to the `raise` of line 303, which
\* no path goes past.
aggregate(h, step, ctx) ==
    IF ~(generateAll(step.group) /\ generateAll(step.aggregations) /\ generateAll(step.operands))
    THEN Raise(h, "NotImplementedError")
    ELSE IF ctx.data_tables = <<>> THEN Raise(h, "IndexError")
    ELSE
    LET table == ctx.data_tables[1][1]
        t     == ctx.data_tables[1][2]
        m1    == ContextSort([h |-> h, c |-> ctx], table, step.group)
        h2    == DataTableOfColumns(m1.h, [i \in DOMAIN step.operands |->
                                              alias_or_name(step.operands[i])])
        m3    == AddEvaluated([h |-> h2, c |-> m1.c], Last(h2), table, step.operands, <<>>,
                              0, h2.dts[t].length)
        h3    == DataTableOfDict(m3.h, Merge(m3.h.dts[t].table, m3.h.dts[Last(h2)].table))
    IN  Raise(h3, "RuntimeError")

sort(h, step, ctx) ==
    IF ~generateAll(step.key) THEN Raise(h, "NotImplementedError")
    ELSE IF ctx.data_tables = <<>> THEN Raise(h, "IndexError")
    ELSE
    LET table == ctx.data_tables[1][1]
        m1    == ContextSort([h |-> h, c |-> ctx], table, step.key)
        h2    == DataTableOfColumns(m1.h, [i \in DOMAIN step.projections |->
                                              alias_or_name(step.projections[i])])
    IN  IF ~generateAll(step.projections) THEN Raise(h2, "NotImplementedError")
        ELSE LET m3 == AddEvaluated([h |-> h2, c |-> m1.c], Last(h2), table, step.projections,
                                    step.limit, 0, h2.dts[ctx.data_tables[1][2]].length)
             IN  Return(m3.h, <<<<step.name, Last(h2)>>>>)

-----------------------------------------------------------------------------
(* Plans.  Nodes are numbered 1..Len(plan) in a topological order, the     *)
(* root last; every other node has a dependent.                            *)

Step == [kind |-> "", name |-> "", dependencies |-> {}, dependents |-> {},
         source |-> "", filter |-> <<>>, projections |-> <<>>, limit |-> <<>>,
         joins |-> <<>>, key |-> <<>>, group |-> <<>>, aggregations |-> <<>>,
         operands |-> <<>>]

\* plan.root
Root(p) == Len(p)

\* plan.leaves
Leaves(p) == {n \in DOMAIN p : p[n].dependencies = {}}

\* step.dependents, the inverse of step.dependencies.
WithDependents(p) ==
    [n \in DOMAIN p |-> [p[n] EXCEPT !.dependents = {d \in DOMAIN p : n \in p[d].dependencies}]]

-----------------------------------------------------------------------------
(* execute_plan *)

\* The orders in which a set may be iterated.
Orders(S) == {s \in [1..Cardinality(S) -> S] : Range(s) = S}

NoResult == [raised |-> "", by |-> "", table |-> <<>>]

Finished == DOMAIN contexts

\* {name: data_table for dep in node.dependencies
\*                    for name, data_table in contexts[dep].data_tables.items()}
DependencyTables(order) == Dict(Concat([i \in DOMAIN order |-> contexts[order[i]]]))

\* queue.popleft(); Context(...) over the dependencies' tables; running.add(node)
PopNode ==
    /\ pc = "loop"
    /\ queue # <<>>
    /\ node' = Head(queue)
    /\ queue' = Tail(queue)
    /\ hist' = [hist EXCEPT !.started = @ \cup {Head(queue)}, !.h0 = heap]
    /\ IF plan[Head(queue)].dependencies \subseteq Finished
       THEN /\ \E order \in Orders(plan[Head(queue)].dependencies) :
                  context' = ContextOfTables(DependencyTables(order))
            /\ running' = running \cup {Head(queue)}
            /\ pc' = "dispatch"
            /\ result' = result
       ELSE /\ pc' = "raised"
            /\ result' = [raised |-> "KeyError", by |-> "execute_plan", table |-> <<>>]
            /\ UNCHANGED <<context, running>>
    /\ UNCHANGED <<plan, csv, contexts, heap>>

\* Variants of the enqueue condition, for comparison with Ready: `any` in
\* place of `all`, and the condition without its second conjunct.
ReadyAny(dep, done) == dep \notin running /\ \E d \in plan[dep].dependencies : d \in done

ReadyNotRunning(dep, done) == dep \notin running

\* for dep in node.dependents:
\*     if dep not in running and all(d in contexts for d in dep.dependencies): queue.append(dep)
Ready(dep, done) == dep \notin running /\ \A d \in plan[dep].dependencies : d \in done

\* contexts[node] = <operator>(node, context), then the loop over node.dependents;
\* an exception of the operator leaves execute_plan.
Finish(r) ==
    /\ heap' = r.h
    /\ hist' = [hist EXCEPT !.runs[node] = @ + 1,
                            !.enqueued = [n \in DOMAIN @ |->
                                IF r.raised = "" /\ n \in plan[node].dependents
                                                /\ Ready(n, Finished \cup {node})
                                THEN @[n] + 1 ELSE @[n]]]
    /\ IF r.raised # ""
       THEN /\ pc' = "raised"
            /\ result' = [raised |-> r.raised, by |-> "operator", table |-> <<>>]
            /\ UNCHANGED <<queue, contexts>>
       ELSE /\ pc' = "loop"
            /\ contexts' = [n \in Finished \cup {node} |->
                               IF n = node THEN r.data_tables ELSE contexts[n]]
            /\ \E order \in Orders(plan[node].dependents) :
                  queue' = queue \o SelectSeq(order, LAMBDA dep : Ready(dep, Finished \cup {node}))
            /\ result' = result
    /\ UNCHANGED <<plan, csv, running, node, context>>

RunScan ==
    /\ pc = "dispatch"
    /\ plan[node].kind = "Scan"
    /\ \E r \in {scan(heap, csv, plan[node], context)} : Finish(r)

RunAggregate ==
    /\ pc = "dispatch"
    /\ plan[node].kind = "Aggregate"
    /\ \E r \in {aggregate(heap, plan[node], context)} : Finish(r)

RunJoin ==
    /\ pc = "dispatch"
    /\ plan[node].kind = "Join"
    /\ \E r \in {join(heap, plan[node], context)} : Finish(r)

RunSort ==
    /\ pc = "dispatch"
    /\ plan[node].kind = "Sort"
    /\ \E r \in {sort(heap, plan[node], context)} : Finish(r)

\* else: raise NotImplementedError
RunOther ==
    /\ pc = "dispatch"
    /\ plan[node].kind \notin {"Scan", "Aggregate", "Join", "Sort"}
    /\ pc' = "raised"
    /\ result' = [raised |-> "NotImplementedError", by |-> "dispatch", table |-> <<>>]
    /\ UNCHANGED <<plan, csv, queue, running, contexts, node, context, heap, hist>>

\* root = plan.root; return contexts[root].data_tables[root.name]
ReturnRoot ==
    /\ pc = "loop"
    /\ queue = <<>>
    /\ LET root == Root(plan)
       IN  IF root \in Finished /\ HasKey(contexts[root], plan[root].name)
           THEN /\ pc' = "done"
                /\ result' = [raised |-> "", by |-> "",
                              table |-> <<Get(contexts[root], plan[root].name)>>]
           ELSE /\ pc' = "raised"
                /\ result' = [raised |-> "KeyError", by |-> "execute_plan", table |-> <<>>]
    /\ UNCHANGED <<plan, csv, queue, running, contexts, node, context, heap, hist>>

\* The state execute_plan starts the loop in.
Start(p, files) ==
    /\ plan = WithDependents(p)
    /\ csv = files
    /\ queue \in Orders(Leaves(p))
    /\ running = {}
    /\ contexts = <<>>
    /\ node = 0
    /\ context = Context(<<>>)
    /\ heap = EmptyHeap
    /\ result = NoResult
    /\ hist = [started |-> {}, runs |-> [n \in DOMAIN p |-> 0], h0 |-> EmptyHeap,
               enqueued |-> [n \in DOMAIN p |-> IF n \in Leaves(p) THEN 1 ELSE 0]]
    /\ pc = "loop"

-----------------------------------------------------------------------------
(* The scheduler's plans: every shape of at most MaxNodes nodes, every     *)
(* variant per node that the shape allows, over one table source.          *)

MaxNodes == 3

StepNames == <<"n1", "n2", "n3", "n4", "n5", "n6">>

Kinds == {"Scan", "Aggregate", "Join", "Sort", "Other"}

Min(S) == CHOOSE x \in S : \A y \in S : x <= y

Shapes(N) ==
    {deps \in [1..N -> SUBSET (1..N)] :
        /\ \A n \in 1..N : deps[n] \subseteq 1..(n - 1)
        /\ \A n \in 1..(N - 1) : \E d \in (n + 1)..N : n \in deps[d]}

\* A scan reads one source, a sort and an aggregate one input, a join its
\* base table and the joined ones.
KindsFit(kinds, deps) ==
    \A n \in DOMAIN kinds :
        CASE kinds[n] = "Scan"                -> Cardinality(deps[n]) <= 1
          [] kinds[n] \in {"Sort", "Aggregate"} -> Cardinality(deps[n]) = 1
          [] kinds[n] = "Join"                -> Cardinality(deps[n]) >= 1
          [] OTHER                            -> TRUE

\* A join step carries the name of its base table.
RECURSIVE StepName(_, _, _)
StepName(kinds, deps, n) ==
    IF kinds[n] = "Join" /\ deps[n] # {} THEN StepName(kinds, deps, Min(deps[n]))
    ELSE StepNames[n]

\* The others of a join's dependencies, ascending.
RECURSIVE Ascending(_)
Ascending(S) == IF S = {} THEN <<>> ELSE <<Min(S)>> \o Ascending(S \ {Min(S)})

PlanFiles == <<<<"t", [columns |-> <<"k", "v">>, rows |-> <<<<2, 10>>, <<1, 20>>>>]>>>>

PresetStep(kinds, deps, n) ==
    LET input == IF deps[n] = {} THEN "t" ELSE StepName(kinds, deps, Min(deps[n]))
        k     == ColumnExp(input, "k")
        v     == ColumnExp(input, "v")
        rest  == Ascending(deps[n] \ {Min(deps[n])})
    IN  [Step EXCEPT
           !.kind = kinds[n],
           !.name = StepName(kinds, deps, n),
           !.dependencies = deps[n],
           !.source = IF kinds[n] = "Scan" THEN input ELSE "",
           !.key = IF kinds[n] = "Sort" THEN <<k>> ELSE <<>>,
           !.projections = IF kinds[n] = "Sort" THEN <<k, v>> ELSE <<>>,
           !.group = IF kinds[n] = "Aggregate" THEN <<k>> ELSE <<>>,
           !.aggregations = IF kinds[n] = "Aggregate" THEN <<Alias(Sum(v), "s")>> ELSE <<>>,
           !.joins = IF kinds[n] = "Join"
                     THEN [i \in DOMAIN rest |->
                             <<StepName(kinds, deps, rest[i]),
                               [kind |-> "INNER",
                                on   |-> <<EQ(k, ColumnExp(StepName(kinds, deps, rest[i]), "k"))>>]>>]
                     ELSE <<>>]

PresetPlan(kinds, deps) == [n \in DOMAIN kinds |-> PresetStep(kinds, deps, n)]

Init ==
    \E N \in 1..MaxNodes : \E deps \in Shapes(N) : \E kinds \in [1..N -> Kinds] :
        /\ KindsFit(kinds, deps)
        /\ Start(PresetPlan(kinds, deps), PlanFiles)

Next ==
    \/ PopNode
    \/ RunScan
    \/ RunAggregate
    \/ RunJoin
    \/ RunSort
    \/ RunOther
    \/ ReturnRoot

Spec == Init /\ [][Next]_vars

\* A dispatched operator returns or raises: the step of RunScan, RunAggregate,
\* RunJoin and RunSort as far as pc shows it.
OperatorStep ==
    /\ pc = "dispatch"
    /\ plan[node].kind \in {"Scan", "Aggregate", "Join", "Sort"}
    /\ pc' \in {"loop", "raised"}

\* execute_plan is one sequential loop: a step that can be taken is taken.
FairSpec == Spec /\ WF_vars(PopNode \/ RunOther \/ ReturnRoot) /\ WF_pc(OperatorStep)

-----------------------------------------------------------------------------
(* Properties of execute_plan over the plans above. *)

\* The columns of a table with their contents.
TableContents(h, t) ==
    [i \in DOMAIN h.dts[t].table |-> <<h.dts[t].table[i][1], h.lists[h.dts[t].table[i][2]]>>]

\* C1: a node whose operator is about to be, or has been, invoked has every
\* one of its dependencies finished: the dependency's operator has returned
\* and its output is recorded in contexts.  The loop never fails to find a
\* dependency's context.
C1_StartedAfterDependencies ==
    /\ \A n \in hist.started :
          \A d \in plan[n].dependencies : d \in Finished /\ hist.runs[d] = 1
    /\ result.by # "execute_plan"

\* A node with several dependencies has been popped and is about to run.
C1_Witness ==
    /\ pc = "dispatch"
    /\ Cardinality(plan[node].dependencies) >= 2
    /\ node \in hist.started

\* execute_plan has returned or raised.
Terminated == pc \in {"done", "raised"}

\* No node is enqueued or run twice; the loop itself never fails; once it
\* has returned, every node has run and the result is the root's table.
EachNodeOnce ==
    /\ \A n \in DOMAIN plan : hist.enqueued[n] <= 1 /\ hist.runs[n] <= 1
    /\ pc = "raised" => result.by \in {"operator", "dispatch"}
    /\ pc = "done" =>
          /\ \A n \in DOMAIN plan : hist.enqueued[n] = 1 /\ hist.runs[n] = 1
          /\ \E root \in DOMAIN plan :
                /\ plan[root].dependents = {}
                /\ root \in Finished
                /\ HasKey(contexts[root], plan[root].name)
                /\ result.table = <<Get(contexts[root], plan[root].name)>>

\* C8: the loop of execute_plan terminates; no node is enqueued or run
\* twice; the loop itself never fails, it ends by returning or with the
\* error of an operator or of an unknown variant; and when it returns, every
\* node has run exactly once and the value returned is the table recorded
\* in contexts for the node no other node depends on, under that node's name.
C8_TerminatesEachNodeOnce == <>Terminated /\ []EachNodeOnce

\* execute_plan has returned on a plan with a node of several dependencies
\* and a node of several dependents.
C8_Witness ==
    /\ pc = "done"
    /\ \E n \in DOMAIN plan : Cardinality(plan[n].dependencies) >= 2
    /\ \E n \in DOMAIN plan : Cardinality(plan[n].dependents) >= 2

\* C2: no step changes the table of a node that has finished before it.
C2_FinishedTablesUnmodified ==
    [][\A n \in Finished : \A i \in DOMAIN contexts[n] :
          TableContents(heap', contexts[n][i][2]) = TableContents(heap, contexts[n][i][2])]_vars

-----------------------------------------------------------------------------
(* Plans of one operator over table sources.  The rows of a source are     *)
(* the typed tuples scan_csv yields, alike in type column by column.       *)

MaxRows == 3

MaxKey == 2

\* A scan of a table source without filter, projections or limit.
SourceScan(name, source) == [Step EXCEPT !.kind = "Scan", !.name = name, !.source = source]

File(name, cols, rows) == <<name, [columns |-> cols, rows |-> rows]>>

NonEmptySeqs(S, n) == SeqsUpTo(S, n) \ {<<>>}

\* step.limit: None, or a number from 0 to beyond the row count.
Limits == {<<>>} \cup {<<k>> : k \in 0..(MaxRows + 1)}

\* The first k elements of s, all of s when it has no more.
Take(s, k) == SubSeq(s, 1, IF k < Len(s) THEN k ELSE Len(s))

-----------------------------------------------------------------------------
(* Sort: n2 sorts the rows that n1 scans from t(a, b) by a.                *)

SortStep(key, projections, limit) ==
    [Step EXCEPT !.kind = "Sort", !.name = "n2", !.dependencies = {1},
                 !.key = key, !.projections = projections, !.limit = limit]

SortCases ==
    [key         : {<<Ordered(ColumnExp("n1", "a"), FALSE)>>,
                    <<Ordered(ColumnExp("n1", "a"), TRUE)>>,
                    <<Ordered(Cast(ColumnExp("n1", "a"), "INT"), FALSE)>>},
     projections : {<<ColumnExp("n1", "a"), ColumnExp("n1", "b")>>,
                    <<ColumnExp("n1", "a"), Alias(Cast(ColumnExp("n1", "b"), "INT"), "b")>>},
     limit       : Limits]

SortPlanInit ==
    \E rows \in NonEmptySeqs((1..MaxKey) \X (1..MaxKey), MaxRows) : \E c \in SortCases :
        Start(<<SourceScan("n1", "t"), SortStep(c.key, c.projections, c.limit)>>,
              <<File("t", <<"a", "b">>, rows)>>)

SortPlanNext == PopNode \/ RunScan \/ RunSort \/ ReturnRoot

SortSpec == SortPlanInit /\ [][SortPlanNext]_vars

\* p lists the positions of `rows` in stable order of the first column,
\* descending when desc: a permutation that puts no greater (smaller) key
\* before a smaller (greater) one and keeps the input order between equal keys.
IsStableOrder(p, rows, desc) ==
    /\ \A i, j \in DOMAIN p : i < j =>
          /\ p[i] # p[j]
          /\ IF desc THEN rows[p[i]][1] >= rows[p[j]][1] ELSE rows[p[i]][1] <= rows[p[j]][1]
          /\ rows[p[i]][1] = rows[p[j]][1] => p[i] < p[j]

\* C6: when the Sort of n2 has returned, its output is the first k rows of
\* the stably sorted input for a limit k from 0 to the row count, and the
\* whole sorted input when the limit is unset or exceeds the row count;
\* tied rows keep their input order and a descending key gives a
\* non-increasing order.
C6_SortLimit ==
    pc = "done" =>
        \E p \in [DOMAIN csv[1][2].rows -> DOMAIN csv[1][2].rows] :
            /\ IsStableOrder(p, csv[1][2].rows, plan[2].key[1].desc)
            /\ Rows(heap, result.table[1]) =
                  Take([i \in DOMAIN p |-> csv[1][2].rows[p[i]]],
                       IF plan[2].limit = <<>> THEN Len(p) ELSE plan[2].limit[1])

\* C7: when an operator raises the generator's NotImplementedError, every
\* table that existed when the operator was invoked still has its contents
\* and its reader position, and no other table holds a row.
C7_CompileErrorBeforeRows ==
    (pc = "raised" /\ result.raised = "NotImplementedError" /\ result.by = "operator") =>
        /\ \A t \in DOMAIN hist.h0.dts :
              /\ TableContents(heap, t) = TableContents(hist.h0, t)
              /\ heap.dts[t].row = hist.h0.dts[t].row
        /\ \A t \in DOMAIN heap.dts : t \notin DOMAIN hist.h0.dts => Rows(heap, t) = <<>>

-----------------------------------------------------------------------------
(* Scan: of the table source T(a, b) itself, or of the table n1 that a     *)
(* first scan has materialized from it.                                    *)

ScanStep(name, source, dependencies, c) ==
    [Step EXCEPT !.kind = "Scan", !.name = name, !.source = source,
                 !.dependencies = dependencies,
                 !.filter = IF c.filtered THEN <<EQ(ColumnExp(source, "b"), Literal("x"))>> ELSE <<>>,
                 !.projections = IF c.projected THEN <<ColumnExp(source, "a")>> ELSE <<>>,
                 !.limit = c.limit]

ScanCases == [materialized : BOOLEAN, filtered : BOOLEAN, projected : BOOLEAN, limit : Limits]

ScanPlanInit ==
    \E rows \in NonEmptySeqs((1..MaxRows) \X {"x", "y"}, MaxRows) : \E c \in ScanCases :
        Start(IF c.materialized
              THEN <<SourceScan("n1", "T"), ScanStep("n2", "n1", {1}, c)>>
              ELSE <<ScanStep("n1", "T", {}, c)>>,
              <<File("T", <<"a", "b">>, rows)>>)

ScanPlanNext == PopNode \/ RunScan \/ ReturnRoot

ScanSpec == ScanPlanInit /\ [][ScanPlanNext]_vars

\* C5: execute_plan returns from a plan ending in a Scan, and the table it
\* returns has the projection aliases as columns, or the source's columns
\* without projections, and as rows the source rows that pass the filter, in
\* source order, projected if projections are given, and no more than
\* `limit` of them when a limit is set.
C5_ScanOutput ==
    pc \in {"done", "raised"} =>
        /\ pc = "done"
        /\ Keys(heap.dts[result.table[1]].table) =
              (IF plan[Root(plan)].projections # <<>> THEN <<"a">> ELSE <<"a", "b">>)
        /\ \E passing \in {IF plan[Root(plan)].filter # <<>>
                           THEN SelectSeq(csv[1][2].rows, LAMBDA row : row[2] = "x")
                           ELSE csv[1][2].rows} :
              Rows(heap, result.table[1]) =
                 Take([i \in DOMAIN passing |->
                          IF plan[Root(plan)].projections # <<>> THEN <<passing[i][1]>>
                          ELSE passing[i]],
                      IF plan[Root(plan)].limit = <<>> THEN Len(passing)
                      ELSE plan[Root(plan)].limit[1])

-----------------------------------------------------------------------------
(* Join: the step named A joins B to A, the two scanned from the sources   *)
(* A(id, v) and B(id, w) or B(key, w), on the first column of each.        *)

JoinStep(kind, b_key) ==
    [Step EXCEPT !.kind = "Join", !.name = "A", !.dependencies = {1, 2},
                 !.joins = <<<<"B", [kind |-> kind,
                                     on   |-> <<EQ(ColumnExp("A", "id"), ColumnExp("B", b_key))>>]>>>>]

MaxJoinRows == 2

JoinPlanInit ==
    \E a_rows \in NonEmptySeqs((1..MaxRows) \X {"a", "b"}, MaxJoinRows) :
    \E b_rows \in NonEmptySeqs((1..MaxRows) \X {"x", "y"}, MaxJoinRows) :
    \E kind \in {"INNER", "CROSS"} : \E b_key \in {"id", "key"} :
        Start(<<SourceScan("A", "A"), SourceScan("B", "B"), JoinStep(kind, b_key)>>,
              <<File("A", <<"id", "v">>, a_rows), File("B", <<b_key, "w">>, b_rows)>>)

JoinPlanNext == PopNode \/ RunScan \/ RunJoin \/ ReturnRoot

JoinSpec == JoinPlanInit /\ [][JoinPlanNext]_vars

\* The pairs of a row of a_rows and a row of b_rows with equal first columns.
Matching(a_rows, b_rows) ==
    {ij \in (DOMAIN a_rows) \X (DOMAIN b_rows) : a_rows[ij[1]][1] = b_rows[ij[2]][1]}

\* C3: the join of A and B on equal keys returns, and the rows of its output
\* are the concatenations a_row ++ b_row of the pairs of rows with equal
\* key, each pair once and nothing else, whether or not the column names of
\* the two tables overlap.
C3_JoinRows ==
    (pc \in {"done", "raised"} /\ plan[3].joins[1][2].kind = "INNER") =>
        /\ pc = "done"
        /\ Len(Rows(heap, result.table[1])) = Cardinality(Matching(csv[1][2].rows, csv[2][2].rows))
        /\ \E f \in [DOMAIN Rows(heap, result.table[1]) -> Matching(csv[1][2].rows, csv[2][2].rows)] :
              /\ \A r, q \in DOMAIN f : r # q => f[r] # f[q]
              /\ \A r \in DOMAIN f :
                    Rows(heap, result.table[1])[r] = csv[1][2].rows[f[r][1]] \o csv[2][2].rows[f[r][2]]

-----------------------------------------------------------------------------
(* Aggregate: n2 groups the rows that n1 scans from t(g, x) by g and sums x. *)

AggregateStep(operands) ==
    [Step EXCEPT !.kind = "Aggregate", !.name = "n2", !.dependencies = {1},
                 !.group = <<ColumnExp("n1", "g")>>,
                 !.aggregations = <<Alias(Sum(ColumnExp("n1", "x")), "s")>>,
                 !.operands = operands]

AggregatePlanInit ==
    \E rows \in NonEmptySeqs((1..MaxKey) \X {5, 10, 20}, MaxRows) :
    \E operands \in {<<>>, <<Alias(ColumnExp("n1", "x"), "o")>>} :
        Start(<<SourceScan("n1", "t"), AggregateStep(operands)>>,
              <<File("t", <<"g", "x">>, rows)>>)

AggregatePlanNext == PopNode \/ RunScan \/ RunAggregate

AggregateSpec == AggregatePlanInit /\ [][AggregatePlanNext]_vars

\* The sum of the second column over the rows whose first column is g.
GroupSum(rows, g) ==
    SumSeq([i \in DOMAIN SelectSeq(rows, LAMBDA row : row[1] = g) |->
               SelectSeq(rows, LAMBDA row : row[1] = g)[i][2]])

\* C4: the aggregate of n2 returns, and its output has exactly one row per
\* distinct group key of the input, the key followed by the sum over the
\* rows of that group.
C4_AggregateGroups ==
    pc \in {"done", "raised"} =>
        /\ pc = "done"
        /\ Len(Rows(heap, result.table[1])) = Cardinality({row[1] : row \in Range(csv[1][2].rows)})
        /\ \A g \in {row[1] : row \in Range(csv[1][2].rows)} :
              \E r \in DOMAIN Rows(heap, result.table[1]) :
                  Rows(heap, result.table[1])[r] = <<g, GroupSum(csv[1][2].rows, g)>>

-----------------------------------------------------------------------------
(* DataTable objects under their own operations: the two ways of           *)
(* construction, add, pop, and Context.sort on a Context over the table.   *)

MaxTables == 2

MaxLists == 4

MaxTableRows == 2

\* The state before any DataTable exists.
TableInit ==
    /\ pc = "tables"
    /\ heap = EmptyHeap
    /\ plan = <<>>
    /\ csv = <<>>
    /\ queue = <<>>
    /\ running = {}
    /\ contexts = <<>>
    /\ node = 0
    /\ context = Context(<<>>)
    /\ result = NoResult
    /\ hist = <<>>

\* DataTable(columns)
NewTable ==
    /\ pc = "tables"
    /\ Len(heap.dts) < MaxTables
    /\ \E names \in {<<"a">>, <<"a", "b">>} : heap' = DataTableOfColumns(heap, names)
    /\ UNCHANGED <<pc, plan, csv, queue, running, contexts, node, context, result, hist>>

\* DataTable({**s.table, **t.table}), as aggregate builds its working table.
NewTableOfDict ==
    /\ pc = "tables"
    /\ Len(heap.dts) < MaxTables
    /\ \E s, t \in DOMAIN heap.dts :
          heap' = DataTableOfDict(heap, Merge(heap.dts[s].table, heap.dts[t].table))
    /\ UNCHANGED <<pc, plan, csv, queue, running, contexts, node, context, result, hist>>

\* t.add(row); the columns and the counter are kept within MaxTableRows.
AddRow ==
    /\ pc = "tables"
    /\ \E t \in DOMAIN heap.dts : \E row \in [1..width(heap, t) -> 1..MaxKey] :
          /\ heap.dts[t].length < MaxTableRows
          /\ \A i \in DOMAIN heap.dts[t].table : Len(heap.lists[heap.dts[t].table[i][2]]) < MaxTableRows
          /\ heap' = add(heap, t, row)
    /\ UNCHANGED <<pc, plan, csv, queue, running, contexts, node, context, result, hist>>

\* t.pop(), the counter kept above -MaxTableRows.
PopRow ==
    /\ pc = "tables"
    /\ \E t \in DOMAIN heap.dts :
          /\ heap.dts[t].length > -MaxTableRows
          /\ CanPop(heap, t)
          /\ heap' = pop(heap, t)
    /\ UNCHANGED <<pc, plan, csv, queue, running, contexts, node, context, result, hist>>

\* Context({"t": t}).sort("t", key) with the first column as the key, on a
\* table whose columns hold `length` values or more (a shorter column ends
\* the sort with an IndexError).
SortTable ==
    /\ pc = "tables"
    /\ Len(heap.lists) + 2 <= MaxLists
    /\ \E t \in DOMAIN heap.dts : \E desc \in BOOLEAN :
          /\ \A i \in DOMAIN heap.dts[t].table :
                Len(heap.lists[heap.dts[t].table[i][2]]) >= heap.dts[t].length
          /\ heap' = ContextSort([h |-> heap, c |-> ContextOfTables(<<<<"t", t>>>>)], "t",
                                 <<Ordered(ColumnExp("t", columns(heap, t, 0)), desc)>>).h
    /\ UNCHANGED <<pc, plan, csv, queue, running, contexts, node, context, result, hist>>

TableNext == NewTable \/ NewTableOfDict \/ AddRow \/ PopRow \/ SortTable

TableSpec == TableInit /\ [][TableNext]_vars

\* C9: the columns of every DataTable all have the length that the table
\* reports as `length`.
C9_ColumnsHaveLength ==
    \A t \in DOMAIN heap.dts : \A i \in DOMAIN heap.dts[t].table :
        Len(heap.lists[heap.dts[t].table[i][2]]) = heap.dts[t].length

-----------------------------------------------------------------------------
(* A Context over two tables under set_row and set_range.                  *)

CtxTables == <<"A", "B">>

\* Two tables of one column and MaxRows rows each.
RECURSIVE Filled(_, _, _)
Filled(h, t, n) == IF n = 0 THEN h ELSE Filled(add(h, t, <<n>>), t, n - 1)

CtxHeap ==
    Filled(DataTableOfColumns(Filled(DataTableOfColumns(EmptyHeap, <<"id">>), 1, MaxRows),
                              <<"id">>), 2, MaxRows)

\* A mode and position of a table: a row (None before the first set_row)
\* or a range.
RowMode(row) == [mode |-> "row", at |-> row]

RangeMode(range) == [mode |-> "range", at |-> range]

\* context[table]: the reader that `scope` holds for the table, as the mode
\* and position a column access goes through.
Resolve(m, table) ==
    IF m.c.scope = "row_readers"
    THEN RowMode(m.h.dts[Get(m.c.row_readers, table).dt].row)
    ELSE RangeMode(Get(m.c.range_readers, table))

CtxInit ==
    /\ pc = "context"
    /\ heap = CtxHeap
    /\ context = ContextOfTables([i \in DOMAIN CtxTables |-> <<CtxTables[i], i>>])
    /\ hist = [i \in DOMAIN CtxTables |-> <<>>]
    /\ plan = <<>>
    /\ csv = <<>>
    /\ queue = <<>>
    /\ running = {}
    /\ contexts = <<>>
    /\ node = 0
    /\ result = NoResult

\* context.set_row(table, row); hist records the mode last set for the table.
SetRow ==
    /\ pc = "context"
    /\ \E i \in DOMAIN CtxTables : \E row \in 0..(MaxRows - 1) :
          /\ \E m \in {set_row([h |-> heap, c |-> context], CtxTables[i], row)} :
                heap' = m.h /\ context' = m.c
          /\ hist' = [hist EXCEPT ![i] = <<RowMode(<<row>>)>>]
    /\ UNCHANGED <<pc, plan, csv, queue, running, contexts, node, result>>

\* context.set_range(table, start, end)
SetRange ==
    /\ pc = "context"
    /\ \E i \in DOMAIN CtxTables : \E start \in 0..MaxRows : \E end \in start..MaxRows :
          /\ \E m \in {set_range([h |-> heap, c |-> context], CtxTables[i], start, end)} :
                heap' = m.h /\ context' = m.c
          /\ hist' = [hist EXCEPT ![i] = <<RangeMode(<<start, end>>)>>]
    /\ UNCHANGED <<pc, plan, csv, queue, running, contexts, node, result>>

CtxNext == SetRow \/ SetRange

CtxSpec == CtxInit /\ [][CtxNext]_vars

\* C10: a table that has been put into a mode resolves through the mode and
\* position last set for it, whatever has been set for the other table since.
C10_ModePerTable ==
    \A i \in DOMAIN CtxTables :
        hist[i] # <<>> => Resolve([h |-> heap, c |-> context], CtxTables[i]) = hist[i][1]

====
